---- MODULE Spec2Model ----
(***************************************************************************)
(* Model of sqltestutil.StartPostgresContainer (postgres_container.go).    *)
(*                                                                         *)
(* One call of StartPostgresContainer is followed statement by statement  *)
(* (pc), against a container runtime and a database whose answers are      *)
(* chosen nondeterministically.  The named results `pg` and `err` of the   *)
(* Go function are variables of the model, so that a bare `return` hands   *)
(* back whatever they hold, and the deferred closures see `err` as the     *)
(* return statement left it.                                               *)
(*                                                                         *)
(* Time: `now` is time.Now() in units of 10 seconds.  The 500ms ticker and *)
(* the 500ms sleep are much shorter than a unit: a tick may arrive at any  *)
(* moment (TickFire) and the clock may advance while the goroutine is      *)
(* blocked in the select, in a runtime/database call or in time.Sleep      *)
(* (Advance).  Straight-line code between blocking operations takes no     *)
(* time.                                                                   *)
(***************************************************************************)
EXTENDS Integers, Sequences, FiniteSets, TLC

\* ---------------------------------------------------------------- bounds
MaxOptTimeout == 2          \* largest HealthCheckTimeout a caller passes (units)

\* ------------------------------------------------------- program constants
DefaultTimeout == 3         \* 30 * time.Second, in units of 10 seconds

\* ------------------------------------------------------------ value sets
OptTimeouts == (-1)..MaxOptTimeout
NilOpt == [isNil |-> TRUE, HealthCheckTimeout |-> 0]
Opts == {NilOpt} \cup {[isNil |-> FALSE, HealthCheckTimeout |-> t] : t \in OptTimeouts}

ContainerIDs == {"c1"}
Passwords == {"pwA"}
HostPorts == {"49153", "49154"}
\* inspect.NetworkSettings.Ports["5432/tcp"]: missing/empty, a binding with an
\* empty HostPort, one binding, two bindings
Bindings == {<<>>, <<"">>, <<"49153">>, <<"49154">>, <<"49154", "49153">>}
HealthStatuses == {"none", "starting", "healthy", "unhealthy", "paused"}

NilErr == [kind |-> "nil", wraps |-> "nil"]
Err(k, w) == [kind |-> k, wraps |-> w]

NoCall == [result |-> "none", force |-> FALSE, id |-> ""]

VARIABLES
    pc,            \* position in StartPostgresContainer
    opt,           \* opts[0], or nil
    pg,            \* named result pg: [isNil, id, password, port]
    err,           \* named result err
    cause,         \* history: the error the return statement assigned
    ctxDone,       \* ctx.Done() is closed
    cancelledIn,   \* history: where the call stood when ctx was cancelled
    pullIssued,    \* history: cli.ImagePull was called
    createRespID,  \* createResp.ID
    container,     \* the container at the runtime
    stopCall,      \* history: the rollback ContainerStop call
    removeCall,    \* history: the rollback ContainerRemove call
    now,           \* time.Now()
    deadline,      \* Stage A deadline
    retryDeadline, \* Stage B deadline
    tickReady,     \* a tick is buffered in ticker.C
    lastHealth,    \* history: health status of the latest inspect
    firstSeen,     \* history: first non-empty HostPort an inspect returned
    seenPorts,     \* history: HostPorts of bindings[0] inspects returned
    lastErr,       \* Stage B lastErr
    connected,     \* Stage B connected
    probedWith,    \* history: connection string of the successful probe
    imageInspected, \* history: how cli.ImageInspect answered
    stageBStart,   \* history: time.Now() when retryDeadline was computed
    sd,            \* position in Shutdown, called on the returned handle
    sdStop,        \* history: Shutdown's ContainerStop call
    sdRemove,      \* history: Shutdown's ContainerRemove call
    shutErr        \* the error Shutdown returned

vars == <<pc, opt, pg, err, cause, ctxDone, cancelledIn, pullIssued, createRespID, container,
          stopCall, removeCall, now, deadline, retryDeadline, tickReady,
          lastHealth, firstSeen, seenPorts, lastErr, connected, probedWith,
          imageInspected, stageBStart, sd, sdStop, sdRemove, shutErr>>

shutdownVars == <<sd, sdStop, sdRemove, shutErr>>

\* ------------------------------------------------------------ pure parts

\* StartOptions.healthCheckTimeout
healthCheckTimeout(o) ==
    IF o.isNil \/ o.HealthCheckTimeout <= 0 THEN DefaultTimeout
    ELSE o.HealthCheckTimeout

\* PostgresContainer.ConnectionString: the pieces Sprintf concatenates
ConnectionString(c) ==
    <<"postgres://pgtest:", c.password, "@127.0.0.1:", c.port, "/pgtest">>

\* the port segment of a connection string
PortSegment(cs) == cs[4]

\* ctx.Err()
CtxErr(done) == IF done THEN "context canceled" ELSE "nil"

\* a call made with ctx: the client rejects it once ctx is cancelled
Outcomes(done) == IF done THEN {"fail"} ELSE {"ok", "fail"}


\* ------------------------------------------------------------- the call

\* lines 104-121: opts[0] is taken, the client is built, pg is allocated
Init ==
    /\ pc = "imageInspect"
    /\ opt \in Opts
    /\ pg = [isNil |-> FALSE, id |-> "", password |-> "", port |-> ""]
    /\ err = NilErr
    /\ cause = NilErr
    /\ ctxDone = FALSE
    /\ cancelledIn = ""
    /\ pullIssued = FALSE
    /\ createRespID = ""
    /\ container = "absent"
    /\ stopCall = NoCall
    /\ removeCall = NoCall
    /\ now = 0
    /\ deadline = 0
    /\ retryDeadline = 0
    /\ tickReady = FALSE
    /\ lastHealth = "n/a"
    /\ firstSeen = ""
    /\ seenPorts = {}
    /\ lastErr = "nil"
    /\ connected = FALSE
    /\ probedWith = <<>>
    /\ imageInspected = "none"
    /\ stageBStart = 0
    /\ sd = "idle"
    /\ sdStop = NoCall
    /\ sdRemove = NoCall
    /\ shutErr = "nil"

\* `return` with the named results as they are: err holds e, pg is untouched
BareReturn(e, next) ==
    /\ err' = e
    /\ cause' = e
    /\ pc' = next
    /\ UNCHANGED pg

\* `return nil, e`
ReturnNil(e, next) ==
    /\ err' = e
    /\ cause' = e
    /\ pg' = [pg EXCEPT !.isNil = TRUE]
    /\ pc' = next

\* ImageInspect that pulls after any inspect error
ImageInspectPullsOnAnyError ==
    /\ pc = "imageInspect"
    /\ \E r \in (IF ctxDone THEN {"fail"} ELSE {"ok", "notfound", "fail"}) :
         /\ imageInspected' = r
         /\ IF r = "ok"
            THEN /\ pc' = "password"
                 /\ UNCHANGED <<pg, err, cause>>
            ELSE /\ pc' = "imagePull"
                 /\ err' = Err("ImageNotFound", "nil")
                 /\ UNCHANGED <<pg, cause>>
    /\ UNCHANGED <<opt, stageBStart, shutdownVars, ctxDone, cancelledIn,
                   pullIssued, createRespID, container, stopCall, removeCall,
                   now, deadline, retryDeadline, tickReady, lastHealth,
                   firstSeen, seenPorts, lastErr, connected, probedWith>>

\* lines 123-128: cli.ImageInspect
ImageInspect ==
    /\ pc = "imageInspect"
    /\ \E r \in (IF ctxDone THEN {"fail"} ELSE {"ok", "notfound", "fail"}) :
         /\ imageInspected' = r
         /\ CASE r = "ok" ->
                   /\ pc' = "password"
                   /\ UNCHANGED <<pg, err, cause>>
              [] r = "notfound" ->
                   /\ pc' = "imagePull"
                   /\ err' = Err("ImageNotFound", "nil")
                   /\ UNCHANGED <<pg, cause>>
              [] OTHER -> BareReturn(Err("ImageInspectErr", "nil"), "done")
    /\ UNCHANGED <<opt, stageBStart, shutdownVars, ctxDone, cancelledIn, pullIssued, createRespID, container, stopCall,
                   removeCall, now, deadline, retryDeadline, tickReady,
                   lastHealth, firstSeen, seenPorts, lastErr, connected,
                   probedWith>>

\* lines 130-134: cli.ImagePull
ImagePull ==
    /\ pc = "imagePull"
    /\ pullIssued' = TRUE
    /\ \E r \in Outcomes(ctxDone) :
         IF r = "ok"
         THEN /\ pc' = "pullCopy"
              /\ err' = NilErr
              /\ UNCHANGED <<pg, cause>>
         ELSE BareReturn(Err("ImagePullErr", "nil"), "done")
    /\ UNCHANGED <<opt, imageInspected, stageBStart, shutdownVars, ctxDone, cancelledIn, createRespID, container, stopCall,
                   removeCall, now, deadline, retryDeadline, tickReady,
                   lastHealth, firstSeen, seenPorts, lastErr, connected,
                   probedWith>>

\* lines 135-139: io.Copy of the pull stream into opt.pullWriter()
PullCopy ==
    /\ pc = "pullCopy"
    /\ \E r \in Outcomes(ctxDone) :
         IF r = "ok"
         THEN /\ pc' = "password"
              /\ err' = NilErr
              /\ UNCHANGED <<pg, cause>>
         ELSE BareReturn(Err("PullCopyErr", "nil"), "done")
    /\ UNCHANGED <<opt, imageInspected, stageBStart, shutdownVars, ctxDone, cancelledIn, pullIssued, createRespID, container, stopCall,
                   removeCall, now, deadline, retryDeadline, tickReady,
                   lastHealth, firstSeen, seenPorts, lastErr, connected,
                   probedWith>>

\* lines 142-147, 318-329: randomPassword; rand.Int may fail at any character
RandomPassword ==
    /\ pc = "password"
    /\ \/ \E p \in Passwords :
            /\ pg' = [pg EXCEPT !.password = p]
            /\ err' = NilErr
            /\ pc' = "create"
            /\ UNCHANGED cause
       \/ BareReturn(Err("PasswordErr", "nil"), "done")
    /\ UNCHANGED <<opt, imageInspected, stageBStart, shutdownVars, ctxDone, cancelledIn, pullIssued, createRespID, container, stopCall,
                   removeCall, now, deadline, retryDeadline, tickReady,
                   lastHealth, firstSeen, seenPorts, lastErr, connected,
                   probedWith>>

\* lines 150-185: cli.ContainerCreate; on success the remove closure is
\* deferred and pg.id is assigned
ContainerCreate ==
    /\ pc = "create"
    /\ \E r \in Outcomes(ctxDone) :
         IF r = "ok"
         THEN \E i \in ContainerIDs :
                /\ createRespID' = i
                /\ container' = "created"
                /\ pg' = [pg EXCEPT !.id = i]
                /\ err' = NilErr
                /\ pc' = "start"
                /\ UNCHANGED cause
         ELSE /\ BareReturn(Err("CreateErr", "nil"), "done")
              /\ UNCHANGED <<createRespID, container>>
    /\ UNCHANGED <<opt, imageInspected, stageBStart, shutdownVars, ctxDone, cancelledIn, pullIssued, stopCall,
                   removeCall, now, deadline, retryDeadline, tickReady,
                   lastHealth, firstSeen, seenPorts, lastErr, connected,
                   probedWith>>

\* ContainerStart with the stop closure deferred before the start call
ContainerStartStopDeferredEarly ==
    /\ pc = "start"
    /\ \E r \in Outcomes(ctxDone) :
         IF r = "ok"
         THEN /\ container' = "running"
              /\ err' = NilErr
              /\ deadline' = now + healthCheckTimeout(opt)
              /\ pc' = "select"
              /\ UNCHANGED <<pg, cause>>
         ELSE /\ BareReturn(Err("StartErr", "nil"), "deferStop")
              /\ UNCHANGED <<container, deadline>>
    /\ UNCHANGED <<opt, imageInspected, stageBStart, shutdownVars, ctxDone, cancelledIn, pullIssued, createRespID, stopCall,
                   removeCall, now, retryDeadline, tickReady,
                   lastHealth, firstSeen, seenPorts, lastErr, connected,
                   probedWith>>

\* lines 187-205: cli.ContainerStart; on failure only the remove closure is
\* deferred yet; on success the stop closure is deferred, the Stage A
\* deadline is computed and the ticker is created
ContainerStart ==
    /\ pc = "start"
    /\ \E r \in Outcomes(ctxDone) :
         IF r = "ok"
         THEN /\ container' = "running"
              /\ err' = NilErr
              /\ deadline' = now + healthCheckTimeout(opt)
              /\ pc' = "select"
              /\ UNCHANGED <<pg, cause>>
         ELSE /\ BareReturn(Err("StartErr", "nil"), "deferRemove")
              /\ UNCHANGED <<container, deadline>>
    /\ UNCHANGED <<opt, imageInspected, stageBStart, shutdownVars, ctxDone, cancelledIn, pullIssued, createRespID, stopCall,
                   removeCall, now, retryDeadline, tickReady,
                   lastHealth, firstSeen, seenPorts, lastErr, connected,
                   probedWith>>


\* ------------------------------------------------- Stage A: runtime health

\* After that is also true at the deadline itself
AfterOrAt(t, d) == t >= d

\* time.Time.After / time.Time.Before
After(t, d) == t > d
Before(t, d) == t < d

\* SelectCancel whose error does not wrap ctx.Err()
SelectCancelUnwrapped ==
    /\ pc = "select"
    /\ ctxDone
    /\ ReturnNil(Err("Cancelled", "nil"), "deferStop")
    /\ UNCHANGED <<opt, imageInspected, stageBStart, shutdownVars, ctxDone, cancelledIn, pullIssued, createRespID, container,
                   stopCall, removeCall, now, deadline, retryDeadline, tickReady,
                   lastHealth, firstSeen, seenPorts, lastErr, connected,
                   probedWith>>

\* lines 209-211: the select takes the ctx.Done() case
SelectCancel ==
    /\ pc = "select"
    /\ ctxDone
    /\ ReturnNil(Err("Cancelled", CtxErr(ctxDone)), "deferStop")
    /\ UNCHANGED <<opt, imageInspected, stageBStart, shutdownVars, ctxDone, cancelledIn, pullIssued, createRespID, container, stopCall,
                   removeCall, now, deadline, retryDeadline, tickReady,
                   lastHealth, firstSeen, seenPorts, lastErr, connected,
                   probedWith>>

\* SelectTick without the deadline test
SelectTickNoDeadline ==
    /\ pc = "select"
    /\ tickReady
    /\ tickReady' = FALSE
    /\ pc' = "inspect"
    /\ UNCHANGED <<opt, imageInspected, stageBStart, shutdownVars, pg, err,
                   cause, ctxDone, cancelledIn, pullIssued, createRespID,
                   container, stopCall, removeCall, now, deadline,
                   retryDeadline, lastHealth, firstSeen, seenPorts, lastErr,
                   connected, probedWith>>

\* lines 212-215: the select takes the ticker.C case (when both cases are
\* ready Go picks either) and the deadline is checked
SelectTick ==
    /\ pc = "select"
    /\ tickReady
    /\ tickReady' = FALSE
    /\ IF After(now, deadline)
       THEN ReturnNil(Err("TimedOut", "nil"), "deferStop")
       ELSE /\ pc' = "inspect"
            /\ UNCHANGED <<pg, err, cause>>
    /\ UNCHANGED <<opt, imageInspected, stageBStart, shutdownVars, ctxDone, cancelledIn, pullIssued, createRespID, container, stopCall,
                   removeCall, now, deadline, retryDeadline,
                   lastHealth, firstSeen, seenPorts, lastErr, connected,
                   probedWith>>

\* RecordPort without the pg.port == "" guard: the latest binding wins
RecordPortLatest(port, ns, bindings) ==
    IF ns /\ Len(bindings) > 0 THEN bindings[1] ELSE port

\* lines 222-227: pg.port after an inspect whose NetworkSettings is non-nil
\* iff ns and whose Ports["5432/tcp"] is bindings
RecordPort(port, ns, bindings) ==
    IF port = "" /\ ns /\ Len(bindings) > 0 THEN bindings[1] ELSE port

\* HealthVerdict that leaves the loop on starting
HealthVerdictEager(status) ==
    CASE status = "none" -> "continue"
      [] status = "unhealthy" -> "fail"
      [] status \in {"healthy", "starting"} -> "break"
      [] OTHER -> "continue"

\* HealthVerdict that fails on a missing health record
HealthVerdictStrict(status) ==
    CASE status \in {"none", "unhealthy"} -> "fail"
      [] status = "healthy" -> "break"
      [] OTHER -> "continue"

\* HealthVerdict that keeps waiting on unhealthy
HealthVerdictLenient(status) ==
    CASE status = "healthy" -> "break"
      [] OTHER -> "continue"

\* lines 229-246: what the loop does with inspect.State.Health
\* ("none": Health == nil)
HealthVerdict(status) ==
    CASE status = "none" -> "continue"
      [] status = "unhealthy" -> "fail"
      [] status = "healthy" -> "break"
      [] status = "starting" -> "continue"
      [] OTHER -> "continue"

\* lines 217-246: cli.ContainerInspect and the rest of the tick
ContainerInspect ==
    /\ pc = "inspect"
    /\ \E r \in Outcomes(ctxDone) :
         IF r = "fail"
         THEN /\ ReturnNil(Err("ContainerInspectErr", "nil"), "deferStop")
              /\ UNCHANGED <<lastHealth, firstSeen, seenPorts>>
         ELSE \E h \in HealthStatuses, ns \in BOOLEAN, b \in Bindings :
                LET port == RecordPort(pg.port, ns, b)
                    shown == IF ns /\ Len(b) > 0 THEN {b[1]} ELSE {}
                    v == HealthVerdict(h)
                IN  /\ lastHealth' = h
                    /\ seenPorts' = seenPorts \cup shown
                    /\ firstSeen' = IF firstSeen = "" /\ shown # {} /\ shown # {""}
                                    THEN b[1] ELSE firstSeen
                    /\ CASE v = "fail" ->
                              /\ err' = Err("Unhealthy", "nil")
                              /\ cause' = Err("Unhealthy", "nil")
                              /\ pg' = [pg EXCEPT !.isNil = TRUE, !.port = port]
                              /\ pc' = "deferStop"
                         [] v = "break" ->
                              /\ pg' = [pg EXCEPT !.port = port]
                              /\ pc' = "portCheck"
                              /\ UNCHANGED <<err, cause>>
                         [] OTHER ->
                              /\ pg' = [pg EXCEPT !.port = port]
                              /\ pc' = "select"
                              /\ UNCHANGED <<err, cause>>
    /\ UNCHANGED <<opt, imageInspected, stageBStart, shutdownVars, ctxDone, cancelledIn, pullIssued, createRespID, container, stopCall,
                   removeCall, now, deadline, retryDeadline, tickReady,
                   lastErr, connected, probedWith>>

\* PortCheck that lets Stage B run against Stage A's deadline
PortCheckSharedDeadline ==
    /\ pc = "portCheck"
    /\ IF pg.port = ""
       THEN /\ ReturnNil(Err("NoPort", "nil"), "deferStop")
            /\ UNCHANGED <<retryDeadline, stageBStart, lastErr, connected>>
       ELSE /\ retryDeadline' = deadline
            /\ stageBStart' = now
            /\ lastErr' = "nil"
            /\ connected' = FALSE
            /\ pc' = "loopB"
            /\ UNCHANGED <<pg, err, cause>>
    /\ UNCHANGED <<opt, imageInspected, shutdownVars, ctxDone, cancelledIn,
                   pullIssued, createRespID, container, stopCall, removeCall,
                   now, deadline, tickReady, lastHealth, firstSeen, seenPorts,
                   probedWith>>

\* PortCheck that returns the handle on runtime health alone
PortCheckTrusting ==
    /\ pc = "portCheck"
    /\ IF pg.port = ""
       THEN ReturnNil(Err("NoPort", "nil"), "deferStop")
       ELSE /\ err' = NilErr
            /\ cause' = NilErr
            /\ pc' = "deferStop"
            /\ UNCHANGED pg
    /\ UNCHANGED <<opt, imageInspected, stageBStart, shutdownVars, ctxDone, cancelledIn, pullIssued, createRespID, container,
                   stopCall, removeCall, now, deadline, tickReady, retryDeadline,
                   lastErr, connected, lastHealth, firstSeen, seenPorts,
                   probedWith>>

\* lines 250-261: the port must be known; Stage B's deadline is computed
PortCheck ==
    /\ pc = "portCheck"
    /\ IF pg.port = ""
       THEN /\ ReturnNil(Err("NoPort", "nil"), "deferStop")
            /\ UNCHANGED <<retryDeadline, stageBStart, lastErr, connected>>
       ELSE /\ retryDeadline' = now + healthCheckTimeout(opt)
            /\ stageBStart' = now
            /\ lastErr' = "nil"
            /\ connected' = FALSE
            /\ pc' = "loopB"
            /\ UNCHANGED <<pg, err, cause>>
    /\ UNCHANGED <<opt, imageInspected, shutdownVars, ctxDone, cancelledIn, pullIssued, createRespID, container, stopCall,
                   removeCall, now, deadline, tickReady,
                   lastHealth, firstSeen, seenPorts, probedWith>>

\* ---------------------------------------------- Stage B: query readiness

\* lines 283-287: after the loop
AfterLoop(conn) ==
    IF ~conn
    THEN ReturnNil(Err("NotReady", lastErr), "deferStop")
    ELSE /\ err' = NilErr
         /\ cause' = NilErr
         /\ pc' = "deferStop"
         /\ UNCHANGED pg

\* line 263: the loop condition
LoopB ==
    /\ pc = "loopB"
    /\ IF Before(now, retryDeadline)
       THEN /\ pc' = "connect"
            /\ UNCHANGED <<pg, err, cause>>
       ELSE AfterLoop(connected)
    /\ UNCHANGED <<opt, imageInspected, stageBStart, shutdownVars, ctxDone, cancelledIn, pullIssued, createRespID, container, stopCall,
                   removeCall, now, deadline, retryDeadline, tickReady,
                   lastHealth, firstSeen, seenPorts, lastErr, connected,
                   probedWith>>

\* Connect that does not keep connErr in lastErr
ConnectForgetful ==
    /\ pc = "connect"
    /\ probedWith' = ConnectionString(pg)
    /\ \E r \in Outcomes(ctxDone) :
         IF r = "ok" THEN pc' = "query" ELSE pc' = "sleep"
    /\ UNCHANGED <<opt, imageInspected, stageBStart, shutdownVars, pg, err, cause, ctxDone, cancelledIn, pullIssued,
                   createRespID, container, stopCall, removeCall, now, deadline,
                   retryDeadline, tickReady, lastHealth, firstSeen, seenPorts,
                   lastErr, connected>>

\* lines 264-265, 276-278: pgx.Connect with pg.ConnectionString()
Connect ==
    /\ pc = "connect"
    /\ probedWith' = ConnectionString(pg)
    /\ \E r \in Outcomes(ctxDone) :
         IF r = "ok"
         THEN /\ pc' = "query"
              /\ UNCHANGED lastErr
         ELSE /\ lastErr' = "connErr"
              /\ pc' = "sleep"
    /\ UNCHANGED <<opt, imageInspected, stageBStart, shutdownVars, pg, err, cause, ctxDone, cancelledIn, pullIssued, createRespID,
                   container, stopCall, removeCall, now, deadline,
                   retryDeadline, tickReady, lastHealth, firstSeen, seenPorts,
                   connected>>

\* lines 267-275: SELECT 1 on the connection, which is then closed
Query ==
    /\ pc = "query"
    /\ \E r \in Outcomes(ctxDone) :
         IF r = "ok"
         THEN /\ connected' = TRUE
              /\ AfterLoop(TRUE)
              /\ UNCHANGED lastErr
         ELSE /\ lastErr' = "queryErr"
              /\ pc' = "sleep"
              /\ UNCHANGED <<pg, err, cause, connected>>
    /\ UNCHANGED <<opt, imageInspected, stageBStart, shutdownVars, ctxDone, cancelledIn, pullIssued, createRespID,
                   container, stopCall, removeCall, now, deadline,
                   retryDeadline, tickReady, lastHealth, firstSeen, seenPorts,
                   probedWith>>

\* line 280: time.Sleep(500ms) that ends within the same clock unit
SleepWithin ==
    /\ pc = "sleep"
    /\ pc' = "loopB"
    /\ UNCHANGED <<opt, imageInspected, stageBStart, shutdownVars, pg, err, cause, ctxDone, cancelledIn, pullIssued, createRespID,
                   container, stopCall, removeCall, now, deadline,
                   retryDeadline, tickReady, lastHealth, firstSeen, seenPorts,
                   lastErr, connected, probedWith>>

\* line 280: time.Sleep(500ms) during which the clock reaches the next unit
SleepAcross ==
    /\ pc = "sleep"
    /\ pc' = "loopB"
    /\ now' = now + 1
    /\ UNCHANGED <<opt, imageInspected, stageBStart, shutdownVars, pg, err, cause, ctxDone, cancelledIn, pullIssued, createRespID,
                   container, stopCall, removeCall, deadline,
                   retryDeadline, tickReady, lastHealth, firstSeen, seenPorts,
                   lastErr, connected, probedWith>>

\* ---------------------------------------------------- deferred closures

\* DeferStop whose failed stop ends the rollback
DeferStopAborting ==
    /\ pc = "deferStop"
    /\ IF err # NilErr
       THEN \E r \in Outcomes(ctxDone) :
              /\ stopCall' = [result |-> r, force |-> FALSE, id |-> createRespID]
              /\ container' = IF r = "ok" THEN "stopped" ELSE container
              /\ pc' = IF r = "ok" THEN "deferRemove" ELSE "done"
       ELSE /\ pc' = "deferRemove"
            /\ UNCHANGED <<stopCall, container>>
    /\ UNCHANGED <<opt, imageInspected, stageBStart, shutdownVars, pg, err, cause, ctxDone, cancelledIn, pullIssued,
                   createRespID, removeCall, now, deadline, retryDeadline,
                   tickReady, lastHealth, firstSeen, seenPorts, lastErr,
                   connected, probedWith>>

\* lines 191-199: runs first (deferred last)
DeferStop ==
    /\ pc = "deferStop"
    /\ IF err # NilErr
       THEN \E r \in Outcomes(ctxDone) :
              /\ stopCall' = [result |-> r, force |-> FALSE, id |-> createRespID]
              /\ container' = IF r = "ok" THEN "stopped" ELSE container
       ELSE UNCHANGED <<stopCall, container>>
    /\ pc' = "deferRemove"
    /\ UNCHANGED <<opt, imageInspected, stageBStart, shutdownVars, pg, err, cause, ctxDone, cancelledIn, pullIssued, createRespID,
                   removeCall, now, deadline, retryDeadline, tickReady,
                   lastHealth, firstSeen, seenPorts, lastErr, connected,
                   probedWith>>

\* DeferRemove without the err != nil test
DeferRemoveAlways ==
    /\ pc = "deferRemove"
    /\ \E r \in Outcomes(ctxDone) :
         /\ removeCall' = [result |-> r, force |-> TRUE, id |-> createRespID]
         /\ container' = IF r = "ok" THEN "removed" ELSE container
    /\ pc' = "done"
    /\ UNCHANGED <<opt, imageInspected, stageBStart, shutdownVars, pg, err,
                   cause, ctxDone, cancelledIn, pullIssued, createRespID,
                   stopCall, now, deadline, retryDeadline, tickReady,
                   lastHealth, firstSeen, seenPorts, lastErr, connected,
                   probedWith>>

\* DeferRemove that assigns removeErr to the named result err
DeferRemoveMasking ==
    /\ pc = "deferRemove"
    /\ IF err # NilErr
       THEN \E r \in Outcomes(ctxDone) :
              /\ removeCall' = [result |-> r, force |-> TRUE, id |-> createRespID]
              /\ container' = IF r = "ok" THEN "removed" ELSE container
              /\ err' = IF r = "ok" THEN err ELSE Err("RemoveErr", "nil")
       ELSE UNCHANGED <<removeCall, container, err>>
    /\ pc' = "done"
    /\ UNCHANGED <<opt, imageInspected, stageBStart, shutdownVars, pg, cause, ctxDone, cancelledIn, pullIssued,
                   createRespID, stopCall, now, deadline, retryDeadline,
                   tickReady, lastHealth, firstSeen, seenPorts, lastErr,
                   connected, probedWith>>

\* lines 173-182: runs second; Force: true
DeferRemove ==
    /\ pc = "deferRemove"
    /\ IF err # NilErr
       THEN \E r \in Outcomes(ctxDone) :
              /\ removeCall' = [result |-> r, force |-> TRUE, id |-> createRespID]
              /\ container' = IF r = "ok" THEN "removed" ELSE container
       ELSE UNCHANGED <<removeCall, container>>
    /\ pc' = "done"
    /\ UNCHANGED <<opt, imageInspected, stageBStart, shutdownVars, pg, err, cause, ctxDone, cancelledIn, pullIssued, createRespID,
                   stopCall, now, deadline, retryDeadline, tickReady,
                   lastHealth, firstSeen, seenPorts, lastErr, connected,
                   probedWith>>

\* ------------------------------------------------------- the environment

\* the caller cancels ctx
Cancel ==
    /\ pc # "done"
    /\ ~ctxDone
    /\ ctxDone' = TRUE
    /\ cancelledIn' = pc
    /\ UNCHANGED <<pc, opt, imageInspected, stageBStart, shutdownVars, pg, err, cause, pullIssued, createRespID,
                   container, stopCall, removeCall, now, deadline,
                   retryDeadline, tickReady, lastHealth, firstSeen, seenPorts,
                   lastErr, connected, probedWith>>

\* line 204: the ticker delivers a tick into its one-slot channel
TickFire ==
    /\ pc \in {"select", "inspect"}
    /\ ~tickReady
    /\ tickReady' = TRUE
    /\ UNCHANGED <<pc, opt, imageInspected, stageBStart, shutdownVars, pg, err, cause, ctxDone, cancelledIn, pullIssued, createRespID,
                   container, stopCall, removeCall, now, deadline,
                   retryDeadline, lastHealth, firstSeen, seenPorts,
                   lastErr, connected, probedWith>>

\* the clock advances while the call is blocked (select, inspect, probe); it
\* is followed only as far as the pending deadline comparison can tell
Advance ==
    /\ \/ pc \in {"select", "inspect"} /\ now <= deadline
       \/ pc \in {"connect", "query"} /\ now < retryDeadline
    /\ now' = now + 1
    /\ UNCHANGED <<pc, opt, imageInspected, stageBStart, shutdownVars, pg, err, cause, ctxDone, cancelledIn, pullIssued, createRespID,
                   container, stopCall, removeCall, deadline,
                   retryDeadline, tickReady, lastHealth, firstSeen, seenPorts,
                   lastErr, connected, probedWith>>

\* ---------------------------------------------------------- Shutdown

startVars == <<pc, opt, pg, err, cause, ctxDone, cancelledIn, pullIssued,
               createRespID, stopCall, removeCall, now, deadline,
               retryDeadline, tickReady, lastHealth, firstSeen, seenPorts,
               lastErr, connected, probedWith, imageInspected, stageBStart>>

\* c.id of the handle Shutdown is called on
ShutdownTarget == pg.id

\* lines 299-304: the caller invokes Shutdown on the handle a successful
\* StartPostgresContainer returned; the client is built
ShutdownClient ==
    /\ pc = "done"
    /\ err = NilErr
    /\ sd = "idle"
    /\ \E r \in {"ok", "fail"} :
         IF r = "ok"
         THEN /\ sd' = "stop"
              /\ UNCHANGED shutErr
         ELSE /\ sd' = "returned"
              /\ shutErr' = "clientErr"
    /\ UNCHANGED <<startVars, container, sdStop, sdRemove>>

\* ShutdownStop that goes on to the remove after a failed stop
ShutdownStopLenient ==
    /\ sd = "stop"
    /\ \E r \in {"ok", "fail"} :
         /\ sdStop' = [result |-> r, force |-> FALSE, id |-> ShutdownTarget]
         /\ container' = IF r = "ok" THEN "stopped" ELSE container
         /\ sd' = "remove"
         /\ UNCHANGED shutErr
    /\ UNCHANGED <<startVars, sdRemove>>

\* lines 306-308: cli.ContainerStop with Shutdown's own ctx
ShutdownStop ==
    /\ sd = "stop"
    /\ \E r \in {"ok", "fail"} :
         /\ sdStop' = [result |-> r, force |-> FALSE, id |-> ShutdownTarget]
         /\ IF r = "ok"
            THEN /\ container' = "stopped"
                 /\ sd' = "remove"
                 /\ UNCHANGED shutErr
            ELSE /\ sd' = "returned"
                 /\ shutErr' = "stopErr"
                 /\ UNCHANGED container
    /\ UNCHANGED <<startVars, sdRemove>>

\* ShutdownRemove that drops the remove error
ShutdownRemoveSilent ==
    /\ sd = "remove"
    /\ \E r \in (IF container = "running" THEN {"fail"} ELSE {"ok", "fail"}) :
         /\ sdRemove' = [result |-> r, force |-> FALSE, id |-> ShutdownTarget]
         /\ container' = IF r = "ok" THEN "removed" ELSE container
         /\ sd' = "returned"
         /\ UNCHANGED shutErr
    /\ UNCHANGED <<startVars, sdStop>>

\* lines 310-313: cli.ContainerRemove without Force, which the runtime
\* refuses for a running container
ShutdownRemove ==
    /\ sd = "remove"
    /\ \E r \in (IF container = "running" THEN {"fail"} ELSE {"ok", "fail"}) :
         /\ sdRemove' = [result |-> r, force |-> FALSE, id |-> ShutdownTarget]
         /\ sd' = "returned"
         /\ IF r = "ok"
            THEN /\ container' = "removed"
                 /\ UNCHANGED shutErr
            ELSE /\ shutErr' = "removeErr"
                 /\ UNCHANGED container
    /\ UNCHANGED <<startVars, sdStop>>

Next ==
    \/ ImageInspect
    \/ ImagePull
    \/ PullCopy
    \/ RandomPassword
    \/ ContainerCreate
    \/ ContainerStart
    \/ SelectCancel
    \/ SelectTick
    \/ ContainerInspect
    \/ PortCheck
    \/ LoopB
    \/ Connect
    \/ Query
    \/ SleepWithin
    \/ SleepAcross
    \/ DeferStop
    \/ DeferRemove
    \/ Cancel
    \/ TickFire
    \/ Advance
    \/ ShutdownClient
    \/ ShutdownStop
    \/ ShutdownRemove

Spec == Init /\ [][Next]_vars

TypeOK ==
    /\ opt \in Opts
    /\ pg.port \in HostPorts \cup {""}
    /\ now \in 0..(4 * DefaultTimeout + 4 * MaxOptTimeout)
    /\ container \in {"absent", "created", "running", "stopped", "removed"}


\* ------------------------------------------------------------ the claims

Returned == pc = "done"
Succeeded == pc = "done" /\ err = NilErr
StageAEntered == deadline > 0
StageBEntered == retryDeadline > 0
RollbackPcs == {"deferStop", "deferRemove", "done"}
GateErrors == {"Cancelled", "TimedOut", "Unhealthy", "ContainerInspectErr",
               "NoPort", "NotReady"}

\* C1: StartPostgresContainer never returns a partial handle: with a non-nil
\* error the returned handle is nil, with a nil error its id, port and
\* password are all non-empty.
C1_NoPartialHandle ==
    Returned =>
        IF err # NilErr
        THEN pg.isNil
        ELSE ~pg.isNil /\ pg.id # "" /\ pg.port # "" /\ pg.password # ""

\* C2: the error StartPostgresContainer returns is the one its return
\* statement assigned; the rollback closures never replace or clear it,
\* whether their stop and remove calls succeed or fail.
C2_OriginalErrorKept ==
    pc \in RollbackPcs => err = cause

C2_Witness ==
    /\ Returned
    /\ cause # NilErr
    /\ stopCall.result = "fail"
    /\ removeCall.result = "fail"

\* C3: when the readiness gate fails after the container was started, a
\* force-remove of the created container has been issued by the time the
\* call returns, also when the rollback stop failed.
C3_GateFailureForceRemoves ==
    (Returned /\ cause.kind \in GateErrors) =>
        /\ removeCall.result # "none"
        /\ removeCall.force
        /\ removeCall.id = createRespID
        /\ createRespID \in ContainerIDs

C3_Witness ==
    /\ Returned
    /\ cause.kind = "NotReady"
    /\ stopCall.result = "fail"
    /\ removeCall.result = "ok"

\* C4 as stated: after create succeeded and start failed, rollback attempts
\* both a stop and a force-remove before the start error is returned.
C4_StopAndRemoveOnStartFailure ==
    (Returned /\ cause.kind = "StartErr") =>
        /\ stopCall.result # "none"
        /\ removeCall.result # "none"
        /\ removeCall.force

\* C4 amended: after create succeeded and start failed, rollback issues a
\* force-remove of the created container and no stop, and the start error is
\* returned.
C4_OnlyForceRemoveOnStartFailure ==
    (Returned /\ cause.kind = "StartErr") =>
        /\ stopCall.result = "none"
        /\ removeCall.result # "none"
        /\ removeCall.force
        /\ removeCall.id = createRespID
        /\ err.kind = "StartErr"

C4_Witness ==
    /\ Returned
    /\ cause.kind = "StartErr"
    /\ container = "removed"


\* Stage A ended without the runtime having reported healthy to any inspect,
\* and not by cancellation, an unhealthy status or a failed inspect.
NeverHealthyInStageA ==
    /\ Returned
    /\ StageAEntered
    /\ lastHealth # "healthy"
    /\ cause.kind \notin {"Cancelled", "Unhealthy", "ContainerInspectErr"}

\* C5 as stated: if the runtime does not report healthy before the Stage A
\* deadline, the call fails with the timed-out error and, once it has
\* returned, the container it created no longer exists at the runtime.
C5_TimeoutLeavesNoContainer ==
    NeverHealthyInStageA =>
        /\ cause.kind = "TimedOut"
        /\ container = "removed"

\* C5 amended: if the runtime does not report healthy before the Stage A
\* deadline, the call fails with the timed-out error (taken only with the
\* clock past start of Stage A + configured timeout) and returns no handle,
\* after issuing a stop and a force-remove of the container it created; once
\* it has returned, the container no longer exists exactly when that
\* force-remove succeeded.
C5_TimeoutRollsBackBestEffort ==
    NeverHealthyInStageA =>
        /\ cause.kind = "TimedOut"
        /\ err = cause
        /\ pg.isNil
        /\ now > deadline
        /\ deadline = healthCheckTimeout(opt)
        /\ stopCall.result # "none"
        /\ removeCall.result # "none"
        /\ removeCall.force
        /\ removeCall.id = createRespID
        /\ (container = "removed" <=> removeCall.result = "ok")

C5_Witness ==
    /\ Returned
    /\ cause.kind = "TimedOut"
    /\ lastHealth = "starting"
    /\ container = "removed"

\* C6: once a Stage A inspect has shown health status unhealthy, the call is
\* on its way out with the unhealthy error and no handle: it is never again
\* at the select or at an inspect, whatever time is left before the deadline.
C6_UnhealthyFailsAtOnce ==
    lastHealth = "unhealthy" =>
        /\ pc \in RollbackPcs
        /\ cause.kind = "Unhealthy"
        /\ err = cause
        /\ pg.isNil

C6_Witness ==
    /\ Returned
    /\ lastHealth = "unhealthy"
    /\ now < deadline

\* C7: if Stage B was entered and the call returns without a successful
\* probe, the error is the readiness-timeout error and it wraps the error of
\* the last failed connection or query attempt, which is not nil.
C7_ReadinessTimeoutWrapsLastErr ==
    (Returned /\ StageBEntered /\ ~connected) =>
        /\ cause.kind = "NotReady"
        /\ cause.wraps \in {"connErr", "queryErr"}
        /\ cause.wraps = lastErr
        /\ ~Before(now, retryDeadline)
        /\ pg.isNil

C7_Witness ==
    /\ Returned
    /\ cause.kind = "NotReady"
    /\ cause.wraps = "connErr"
    /\ lastHealth = "healthy"
    /\ pg.port # ""

\* C8: Stage B runs only after an inspect reported healthy, and success is
\* returned only after a Stage B probe connected with the handle's
\* connection string and ran the query without error.
C8_SuccessNeedsHealthThenProbe ==
    /\ (StageBEntered \/ connected) => lastHealth = "healthy"
    /\ Succeeded =>
         /\ lastHealth = "healthy"
         /\ StageBEntered
         /\ connected
         /\ ~pg.isNil
         /\ probedWith = ConnectionString(pg)

C8_Witness ==
    /\ Succeeded
    /\ connected
    /\ lastErr = "queryErr"

\* C9: pg.port is always the first non-empty host port that bindings[0] of a
\* Stage A inspect showed, a later inspect never changes it, a successful
\* call's connection string carries it, and a call that saw healthy without
\* ever recording a port fails with the port error.
C9_PortIsFirstInspectedBinding ==
    /\ pg.port = firstSeen
    /\ firstSeen # "" => firstSeen \in seenPorts
    /\ Succeeded =>
         /\ PortSegment(ConnectionString(pg)) = firstSeen
         /\ firstSeen \in HostPorts
    /\ (Returned /\ lastHealth = "healthy" /\ firstSeen = "") =>
         /\ cause.kind = "NoPort"
         /\ pg.isNil

C9_Witness ==
    /\ Succeeded
    /\ HostPorts \subseteq seenPorts

ShutdownReturned == sd = "returned"

\* C11 as stated: after Shutdown on a handle of a successful call, the
\* container with the handle's id no longer exists at the runtime, for every
\* outcome of the stop and remove calls.
C11_ShutdownLeavesNoContainer ==
    ShutdownReturned => container = "removed"

\* C11 amended: after Shutdown on a handle of a successful call, the
\* container with the handle's id no longer exists exactly when Shutdown
\* returned nil, that is when its stop and its remove both succeeded; after a
\* failed stop no remove is attempted and the container is still running,
\* and after a failed remove the stopped container is still there.
C11_ShutdownRemovesIffNoError ==
    ShutdownReturned =>
        /\ container = "removed" <=> shutErr = "nil"
        /\ shutErr = "nil" => sdStop.result = "ok" /\ sdRemove.result = "ok"
        /\ sdStop.result = "fail" =>
             sdRemove = NoCall /\ container = "running"
        /\ sdRemove.result = "fail" => container = "stopped"
        /\ sdStop # NoCall => sdStop.id = createRespID
        /\ sdRemove # NoCall => sdRemove.id = createRespID

C11_Witness ==
    /\ ShutdownReturned
    /\ shutErr = "nil"
    /\ container = "removed"

\* C12: an image pull is issued if and only if the image inspect answered
\* not-found; any other inspect error is returned without a pull, and a
\* failed pull (request or stream copy) ends the call before a container is
\* created.
C12_PullIffNotFound ==
    /\ pullIssued => imageInspected = "notfound"
    /\ (imageInspected = "notfound" /\ pc # "imagePull") => pullIssued
    /\ imageInspected = "fail" =>
         /\ Returned
         /\ cause.kind = "ImageInspectErr"
         /\ container = "absent"
    /\ cause.kind \in {"ImagePullErr", "PullCopyErr"} =>
         /\ Returned
         /\ err = cause
         /\ container = "absent"
         /\ createRespID = ""

C12_Witness ==
    /\ Returned
    /\ cause.kind = "PullCopyErr"
    /\ pullIssued

\* C13: a successful call has issued no rollback stop and no rollback remove;
\* the container it created is running when the handle is returned and stays
\* so for as long as the caller has not invoked Shutdown.
C13_SuccessKeepsContainer ==
    Succeeded =>
        /\ stopCall = NoCall
        /\ removeCall = NoCall
        /\ pg.id = createRespID
        /\ sd = "idle" => container = "running"

C13_Witness ==
    /\ Succeeded
    /\ sd = "idle"
    /\ container = "running"


StageAPcs == {"select", "inspect"}
StageBPcs == {"loopB", "connect", "query", "sleep"}

\* C14: when the call fails as Cancelled after the container was created,
\* rollback has reclaimed the container by the time the call returns (the
\* runtime rejects requests made with a cancelled context).
C14_CancelledRollbackReclaims ==
    (Returned /\ cause.kind = "Cancelled") => container = "removed"

\* C15: once ctx is cancelled no further poll is started, neither a Stage A
\* tick leading to an inspect nor a Stage B iteration leading to a connect,
\* and a call cancelled while polling returns the Cancelled error.
C15_NoPollAfterCancel ==
    [][/\ ctxDone => ~(pc' # pc /\ pc' \in {"inspect", "connect"})
       /\ (pc # "done" /\ pc' = "done"
             /\ cancelledIn \in StageAPcs \cup StageBPcs) =>
            cause'.kind = "Cancelled"]_vars

\* C16 as stated: the Stage A loop is left only by cancellation, by the
\* deadline, by an unhealthy status or by a healthy status.
C16_FourExitsOfStageA ==
    [][(pc \in StageAPcs /\ pc' \notin StageAPcs) =>
         \/ cause'.kind = "Cancelled" /\ ctxDone /\ pc = "select"
         \/ cause'.kind = "TimedOut" /\ After(now, deadline) /\ pc = "select"
         \/ cause'.kind = "Unhealthy" /\ lastHealth' = "unhealthy"
         \/ pc' = "portCheck" /\ lastHealth' = "healthy"]_vars

\* C16 amended: the Stage A loop is left only by cancellation, by the
\* deadline, by an unhealthy status, by a healthy status, or by a failed
\* container inspect, whose error is returned.
C16_FiveExitsOfStageA ==
    [][(pc \in StageAPcs /\ pc' \notin StageAPcs) =>
         \/ cause'.kind = "Cancelled" /\ ctxDone /\ pc = "select"
         \/ cause'.kind = "TimedOut" /\ After(now, deadline) /\ pc = "select"
         \/ cause'.kind = "Unhealthy" /\ lastHealth' = "unhealthy"
         \/ pc' = "portCheck" /\ lastHealth' = "healthy"
         \/ cause'.kind = "ContainerInspectErr" /\ pc = "inspect"]_vars

C16_Witness ==
    /\ Returned
    /\ cause.kind = "ContainerInspectErr"
    /\ ~ctxDone

\* C17: as long as every inspect of Stage A has shown no health record,
\* starting or an unknown status, the call has not failed on a status and
\* has not gone on to Stage B: it is still polling, or it left the loop by
\* cancellation, the deadline or a failed inspect.
C17_OtherStatusesKeepWaiting ==
    (StageAEntered /\ lastHealth \notin {"healthy", "unhealthy"}) =>
        /\ ~StageBEntered
        /\ pc # "portCheck"
        /\ \/ pc \in StageAPcs /\ err = NilErr /\ ~pg.isNil
           \/ pc \in RollbackPcs
                /\ cause.kind \in {"Cancelled", "TimedOut", "ContainerInspectErr"}

C17_Witness ==
    /\ pc = "select"
    /\ lastHealth = "paused"
    /\ now = deadline
    /\ firstSeen # ""

\* the timeout the caller configured: 30 seconds when opt is nil or its
\* HealthCheckTimeout is zero or negative
ConfiguredTimeout ==
    IF opt.isNil THEN DefaultTimeout
    ELSE IF opt.HealthCheckTimeout > 0 THEN opt.HealthCheckTimeout
    ELSE DefaultTimeout

\* C18: Stage B's deadline is the time Stage B began plus the configured
\* timeout, whatever Stage A consumed; the readiness timeout is returned only
\* once that much time has passed in Stage B; Stage A's deadline is its start
\* plus the same timeout.
C18_StageBHasItsOwnDeadline ==
    /\ StageAEntered => deadline = ConfiguredTimeout
    /\ StageBEntered =>
         /\ retryDeadline = stageBStart + ConfiguredTimeout
         /\ cause.kind = "NotReady" => now >= stageBStart + ConfiguredTimeout

C18_Witness ==
    /\ Returned
    /\ cause.kind = "NotReady"
    /\ stageBStart > deadline
    /\ ~opt.isNil
    /\ opt.HealthCheckTimeout < 0

\* C19 as stated: Shutdown issues stop before remove, a failed stop is
\* returned as the stop error and a failed remove as the remove error, and
\* the remove is attempted whether the stop succeeded or failed.
C19_ShutdownAlwaysAttemptsRemove ==
    ShutdownReturned =>
        /\ sdRemove # NoCall => sdStop # NoCall
        /\ sdStop.result = "fail" => shutErr = "stopErr" /\ sdRemove # NoCall
        /\ (sdStop.result = "ok" /\ sdRemove.result = "fail") =>
             shutErr = "removeErr"

\* C19 amended: Shutdown issues stop before remove and never remove before
\* stop; a failed stop is returned as the stop error and then no remove is
\* attempted; the remove is attempted only after a successful stop, and its
\* failure is returned as the remove error.
C19_ShutdownStopsThenRemoves ==
    /\ sdRemove # NoCall => sdStop.result = "ok"
    /\ sdStop.result = "fail" =>
         /\ ShutdownReturned
         /\ shutErr = "stopErr"
         /\ sdRemove = NoCall
    /\ sdRemove.result = "fail" => ShutdownReturned /\ shutErr = "removeErr"
    /\ (ShutdownReturned /\ sdStop.result = "ok") => sdRemove # NoCall
    /\ sdRemove # NoCall => ~sdRemove.force

C19_Witness ==
    /\ ShutdownReturned
    /\ sdStop.result = "ok"
    /\ shutErr = "removeErr"

\* Scheduling: every statement of the call that can run does run (each
\* runtime and database call returns), ticks keep being delivered, the clock
\* advances, and a sleep of the Stage B loop reaches the next clock unit
\* again and again.  The caller is free never to cancel and never to call
\* Shutdown.
Fairness ==
    /\ WF_vars(ImageInspect)
    /\ WF_vars(ImagePull)
    /\ WF_vars(PullCopy)
    /\ WF_vars(RandomPassword)
    /\ WF_vars(ContainerCreate)
    /\ WF_vars(ContainerStart)
    /\ WF_vars(SelectCancel \/ SelectTick)
    /\ WF_vars(ContainerInspect)
    /\ WF_vars(PortCheck)
    /\ WF_vars(LoopB)
    /\ WF_vars(Connect)
    /\ WF_vars(Query)
    /\ WF_vars(SleepWithin \/ SleepAcross)
    /\ SF_vars(SleepAcross)
    /\ WF_vars(DeferStop)
    /\ WF_vars(DeferRemove)
    /\ WF_vars(TickFire)
    /\ WF_vars(Advance)

FairSpec == Init /\ [][Next]_vars /\ Fairness

\* C20: every call of StartPostgresContainer eventually returns.
C20_CallReturns == <>(pc = "done")

C20_Witness ==
    /\ Returned
    /\ cause.kind = "NotReady"
    /\ lastErr = "queryErr"
    /\ now >= retryDeadline

====
